---- MODULE Spec2Model ----
(***************************************************************************)
(* A model of acclimatise/converter/wdl.py: the WDL generator of the CLI   *)
(* data model.  The functions of the file are pure; each is an operator,   *)
(* and each specification draws the function's inputs in its initial state *)
(* and applies the function in one step.                                   *)
(*                                                                         *)
(* A Python string is a sequence of one-character strings.  A Python      *)
(* object is a record whose field cls names its class; a class object is   *)
(* an object of class "type".  The outcome of a call that may raise is     *)
(* Return(v) or Raise(e).                                                  *)
(***************************************************************************)
EXTENDS Integers, Sequences, FiniteSets

VARIABLES
    done,           \* the name of the function that has been applied, "" before
    command,        \* cmd.command: the literal command tokens
    inputs,         \* the NamedArguments handed to make_command
    stripped,       \* make_task_name: the tokens after WDL_STRIP.sub("", token)
    task_name,      \* the value of make_task_name
    task_command,   \* the value of make_command
    types,          \* the argument of lowest_common_type
    lowered,        \* the outcome of lowest_common_type
    typ,            \* the first argument of type_to_wdl
    optional,       \* the second argument of type_to_wdl
    wdl_type,       \* the outcome of type_to_wdl
    named_flag,     \* the argument of flag_to_command_input
    command_input   \* the value of flag_to_command_input

vars == <<done, command, inputs, stripped, task_name, task_command, types,
          lowered, typ, optional, wdl_type, named_flag, command_input>>

\* Python's None.
None == [cls |-> "NoneType"]

----------------------------------------------------------------------------
(* Bounds of the model. *)

\* The longest command token drawn, in characters.
MaxLen == 2
\* The most tokens a command has.
MaxTokens == 2
\* The most NamedArguments handed to make_command.
MaxInputs == 2
\* The most types handed to lowest_common_type.
MaxTypes == 3
\* The deepest nesting of List and Tuple in an abstract type.
MaxDepth == 2
\* The most values of a Tuple.
MaxTupleLen == 2
\* The most synonyms of a Flag.
MaxSynonyms == 2
\* The greatest position of a Positional.
MaxPosition == 1

----------------------------------------------------------------------------
(* Characters and strings. *)

LowerCase == <<"a", "b", "c", "d", "e", "f", "g", "h", "i", "j", "k", "l", "m",
               "n", "o", "p", "q", "r", "s", "t", "u", "v", "w", "x", "y", "z">>
UpperCase == <<"A", "B", "C", "D", "E", "F", "G", "H", "I", "J", "K", "L", "M",
               "N", "O", "P", "Q", "R", "S", "T", "U", "V", "W", "X", "Y", "Z">>

\* The character classes of the two regular expressions.
Letters == {LowerCase[i] : i \in 1..26} \cup {UpperCase[i] : i \in 1..26}
Digits == {"0", "1", "2", "3", "4", "5", "6", "7", "8", "9"}
WordChars == Letters \cup Digits \cup {"_"}

\* WDL_IDENT.fullmatch(s): s is [a-zA-Z][a-zA-Z0-9_]*
WDL_IDENT(s) ==
    /\ Len(s) >= 1
    /\ s[1] \in Letters
    /\ \A i \in 2..Len(s) : s[i] \in WordChars

\* Whether WDL_STRIP, (^[^a-zA-Z])|([^a-zA-Z0-9_]), matches the one character
\* at index i of s: the first alternative only at the start of the string, the
\* second anywhere.
WDL_STRIP(s, i) ==
    \/ i = 1 /\ s[i] \notin Letters
    \/ s[i] \notin WordChars

RECURSIVE SubFrom(_, _, _)
SubFrom(repl, s, i) ==
    IF i > Len(s) THEN <<>>
    ELSE (IF WDL_STRIP(s, i) THEN repl ELSE <<s[i]>>) \o SubFrom(repl, s, i + 1)

\* WDL_STRIP.sub(repl, s): every match, found in one scan of s from left to
\* right, is replaced by repl.
WDL_STRIP_sub(repl, s) == SubFrom(repl, s, 1)

\* sep.join(toks)
RECURSIVE Join(_, _)
Join(sep, toks) ==
    IF toks = <<>> THEN <<>>
    ELSE IF Len(toks) = 1 THEN toks[1]
    ELSE toks[1] \o sep \o Join(sep, Tail(toks))

\* s.replace(old, new) for a one-character old
RECURSIVE Replace(_, _, _)
Replace(s, old, new) ==
    IF s = <<>> THEN <<>>
    ELSE <<IF Head(s) = old THEN new ELSE Head(s)>> \o Replace(Tail(s), old, new)

\* c.upper()
Upper(c) ==
    IF \E i \in 1..26 : LowerCase[i] = c
    THEN UpperCase[CHOOSE i \in 1..26 : LowerCase[i] = c]
    ELSE c

\* inflection.camelize(s): re.sub(r"(?:^|_)(.)", lambda m: m.group(1).upper(), s).
\* At the start of the string the match is the first character; elsewhere it
\* is an underscore and the character after it.
RECURSIVE CamelFrom(_, _)
CamelFrom(s, i) ==
    IF i > Len(s) THEN <<>>
    ELSE IF i = 1 THEN <<Upper(s[1])>> \o CamelFrom(s, 2)
    ELSE IF s[i] = "_" /\ i < Len(s) THEN <<Upper(s[i + 1])>> \o CamelFrom(s, i + 2)
    ELSE <<s[i]>> \o CamelFrom(s, i + 1)

camelize(s) == CamelFrom(s, 1)

\* The characters the command tokens are drawn from: a letter, a digit, the
\* underscore and a character outside the identifier alphabet.
Alphabet == {"a", "1", "_", "@"}

\* The sequences over S of the lengths lo..hi.
SeqsOf(S, lo, hi) == UNION {[1..n -> S] : n \in lo..hi}

\* The tokens of the documented examples.
ExampleTokens == {<<"m", "y", "@", "t", "o", "o", "l">>,
                  <<"m", "y", "t", "o", "o", "l">>,
                  <<"1", "2", "a", "b", "c">>}

Tokens == SeqsOf(Alphabet, 0, MaxLen) \cup ExampleTokens

Commands == SeqsOf(Tokens, 0, MaxTokens)

----------------------------------------------------------------------------
(* Outcomes of a call. *)

Return(v) == [raised |-> FALSE, value |-> v]
Raise(e) == [raised |-> TRUE, exc |-> e]

\* isinstance(obj, cls) for the classes of the model, none of which has a
\* subclass among them.
isinstance(obj, cls) == obj.cls = cls

----------------------------------------------------------------------------
(* The abstract types of acclimatise.cli_types. *)

\* The classes without parameters, and CliDict, CliEnum with theirs left out.
LeafClasses == {"CliString", "CliFloat", "CliBoolean", "CliInteger", "CliFile",
                "CliDir", "CliEnum", "CliDict"}

CliLeaf(c) == [cls |-> c]
CliList(v) == [cls |-> "CliList", value |-> v]
\* A tuple is homogenous when its values are all the same type.
CliTuple(vs) ==
    [cls |-> "CliTuple", values |-> vs,
     homogenous |-> \A i, j \in 1..Len(vs) : vs[i] = vs[j]]

Leaves == {CliLeaf(c) : c \in LeafClasses}

\* The types that stand next to a nested one in a Tuple.
Siblings == {CliLeaf("CliFloat"), CliLeaf("CliFile"), CliList(CliLeaf("CliString"))}

\* The abstract types nested at most d deep: a List of a type, a Tuple of
\* copies of a type, a Tuple of a type followed by siblings.
RECURSIVE TypesTo(_)
TypesTo(d) ==
    IF d = 0 THEN Leaves
    ELSE LET S == TypesTo(d - 1) IN
         S \cup {CliList(v) : v \in S}
           \cup {CliTuple([i \in 1..n |-> v]) : v \in S, n \in 1..MaxTupleLen}
           \cup {CliTuple(<<v>> \o r) :
                    v \in S, r \in SeqsOf(Siblings, 1, MaxTupleLen - 1)}

\* The types handed to lowest_common_type.
LowerTypes == Leaves \cup {CliList(CliLeaf("CliInteger")),
                           CliList(CliLeaf("CliString")),
                           CliTuple(<<CliLeaf("CliInteger")>>)}

----------------------------------------------------------------------------
(* The CLI model of acclimatise.model and the NamedArgument of the converter. *)

Str_o == <<"-", "o">>
Str_output == <<"-", "-", "o", "u", "t", "p", "u", "t">>
Str_x == <<"-", "x">>
Str_y == <<"-", "y">>
SynonymPool == {Str_o, Str_output, Str_x, Str_y}

Flag(syns, flagarg, opt) ==
    [cls |-> "Flag", synonyms |-> syns, args |-> [cls |-> flagarg], optional |-> opt]
Positional(pos, opt) ==
    [cls |-> "Positional", position |-> pos, optional |-> opt]
NamedArgument(a, n) ==
    [cls |-> "NamedArgument", arg |-> a, name |-> n]

\* Flag.longest_synonym: the first of the synonyms of the greatest length.
longest_synonym(flag) ==
    LET syns == flag.synonyms
        i == CHOOSE i \in 1..Len(syns) :
                /\ \A j \in 1..Len(syns) : Len(syns[j]) <= Len(syns[i])
                /\ \A j \in 1..(i - 1) : Len(syns[j]) < Len(syns[i])
    IN syns[i]

Flags == {Flag(syns, fa, opt) :
             syns \in SeqsOf(SynonymPool, 1, MaxSynonyms),
             fa \in {"EmptyFlagArg", "SimpleFlagArg"},
             opt \in BOOLEAN}
Positionals == {Positional(pos, opt) : pos \in 0..MaxPosition, opt \in BOOLEAN}

Names == {<<"o", "u", "t">>, <<"i", "n">>}

NamedArguments == {NamedArgument(a, n) : a \in Flags \cup Positionals, n \in Names}

\* The NamedArguments handed to make_command.
CommandArguments ==
    {NamedArgument(Positional(1, TRUE), <<"i", "n">>),
     NamedArgument(Flag(<<Str_o, Str_output>>, "SimpleFlagArg", TRUE), <<"o", "u", "t">>),
     NamedArgument(Flag(<<Str_x>>, "EmptyFlagArg", FALSE), <<"x">>)}

----------------------------------------------------------------------------
(* The target types of wdlgen. *)

PrimitiveType(k) == [cls |-> "PrimitiveType", kind |-> k]
ArrayType(subtype, requires_multiple) ==
    [cls |-> "ArrayType", subtype |-> subtype, requires_multiple |-> requires_multiple]
WdlType(type_obj, opt) == [cls |-> "WdlType", type |-> type_obj, optional |-> opt]

\* WdlType(PrimitiveType(k), optional=optional)
WdlPrimitive(k, opt) == WdlType(PrimitiveType(k), opt)

\* The array wrapper handed the optional flag as well.
WdlArrayOptional(sub, opt) == WdlType(ArrayType(sub, ~opt), opt)

\* WdlType(ArrayType(sub, requires_multiple=not optional)): the wrapper is
\* given no optional argument and keeps the default of its constructor.
WdlArray(sub, opt) == WdlType(ArrayType(sub, ~opt), FALSE)

----------------------------------------------------------------------------
(* lowest_common_type *)

\* type(t): the class object of t.
TypeOf(t) == [cls |-> "type", name |-> t.cls]
ClassObject(c) == [cls |-> "type", name |-> c]

\* The classes lowest_common_type cannot represent in a simpler way.
ComplexClasses ==
    {ClassObject(c) : c \in {"CliDir", "CliDict", "CliFile", "CliTuple", "CliList"}}

\* ", ".join(items): str.join raises TypeError on an item that is no str.
str_join(items) ==
    IF \E x \in items : x.cls # "str"
    THEN Raise([cls |-> "TypeError"])
    ELSE Return(items)

\* lowest_common_type without the numeric rule: Integer and Float fall through
\* to String.
lowest_common_type_no_float(ts) ==
    LET type_set == {TypeOf(ts[i]) : i \in 1..Len(ts)} IN
    IF Cardinality(type_set) = 1
    THEN Return(CHOOSE c \in type_set : TRUE)
    ELSE IF ComplexClasses \cap type_set # {}
    THEN LET joined == str_join(type_set) IN
         IF joined.raised THEN joined
         ELSE Raise([cls |-> "Exception", names |-> joined.value])
    ELSE Return(CliLeaf("CliString"))

\* lowest_common_type without the complex rule: every mix falls back to String.
lowest_common_type_no_raise(ts) ==
    LET type_set == {TypeOf(ts[i]) : i \in 1..Len(ts)} IN
    IF Cardinality(type_set) = 1
    THEN Return(CHOOSE c \in type_set : TRUE)
    ELSE IF /\ Cardinality(type_set) = 2
            /\ ClassObject("CliInteger") \in type_set
            /\ ClassObject("CliFloat") \in type_set
    THEN Return(CliLeaf("CliFloat"))
    ELSE Return(CliLeaf("CliString"))

lowest_common_type(ts) ==
    LET type_set == {TypeOf(ts[i]) : i \in 1..Len(ts)} IN
    IF Cardinality(type_set) = 1
    THEN Return(CHOOSE c \in type_set : TRUE)
    ELSE IF /\ Cardinality(type_set) = 2
            /\ ClassObject("CliInteger") \in type_set
            /\ ClassObject("CliFloat") \in type_set
    THEN Return(CliLeaf("CliFloat"))
    ELSE IF ComplexClasses \cap type_set # {}
    THEN LET joined == str_join(type_set) IN
         IF joined.raised THEN joined
         ELSE Raise([cls |-> "Exception", names |-> joined.value])
    ELSE Return(CliLeaf("CliString"))

----------------------------------------------------------------------------
(* WdlGenerator.type_to_wdl *)

RECURSIVE type_to_wdl(_, _)
type_to_wdl(t, opt) ==
    IF isinstance(t, "CliString") THEN Return(WdlPrimitive("String", opt))
    ELSE IF isinstance(t, "CliFloat") THEN Return(WdlPrimitive("Float", opt))
    ELSE IF isinstance(t, "CliBoolean") THEN Return(WdlPrimitive("Boolean", opt))
    ELSE IF isinstance(t, "CliInteger") THEN Return(WdlPrimitive("Int", opt))
    ELSE IF isinstance(t, "CliFile") THEN Return(WdlPrimitive("File", opt))
    ELSE IF isinstance(t, "CliDir") THEN Return(WdlPrimitive("Directory", opt))
    ELSE IF isinstance(t, "CliTuple") THEN
        IF t.homogenous
        THEN LET sub == type_to_wdl(t.values[1], FALSE) IN
             IF sub.raised THEN sub ELSE Return(WdlArray(sub.value, opt))
        ELSE LET low == lowest_common_type(t.values) IN
             IF low.raised THEN low
             ELSE LET sub == type_to_wdl(low.value, FALSE) IN
                  IF sub.raised THEN sub ELSE Return(WdlArray(sub.value, opt))
    ELSE IF isinstance(t, "CliList") THEN
        LET sub == type_to_wdl(t.value, FALSE) IN
        IF sub.raised THEN sub ELSE Return(WdlArray(sub.value, opt))
    ELSE IF isinstance(t, "CliEnum") THEN Return(WdlPrimitive("String", opt))
    ELSE Return(WdlPrimitive("String", opt))

----------------------------------------------------------------------------
(* flag_to_command_input *)

\* d.update(e) for two dicts, each a function on its keys.
update(d, e) ==
    [k \in DOMAIN d \cup DOMAIN e |-> IF k \in DOMAIN e THEN e[k] ELSE d[k]]

\* flag_to_command_input with the test of the flag's argument inverted.
flag_to_command_input_inverted(nf) ==
    LET args == [name |-> nf.name] IN
    IF isinstance(nf.arg, "Flag")
    THEN LET args1 == update(args, [optional |-> nf.arg.optional]) IN
         IF ~isinstance(nf.arg.args, "EmptyFlagArg")
         THEN update(args1, [true |-> longest_synonym(nf.arg), false |-> <<>>])
         ELSE update(args1, [prefix |-> longest_synonym(nf.arg)])
    ELSE IF isinstance(nf, "Positional")
    THEN update(args, [optional |-> FALSE, position |-> nf.position])
    ELSE args

\* The keyword arguments handed to Task.Command.CommandInput.
flag_to_command_input(nf) ==
    LET args == [name |-> nf.name] IN
    IF isinstance(nf.arg, "Flag")
    THEN LET args1 == update(args, [optional |-> nf.arg.optional]) IN
         IF isinstance(nf.arg.args, "EmptyFlagArg")
         THEN update(args1, [true |-> longest_synonym(nf.arg), false |-> <<>>])
         ELSE update(args1, [prefix |-> longest_synonym(nf.arg)])
    ELSE IF isinstance(nf, "Positional")
    THEN update(args, [optional |-> FALSE, position |-> nf.position])
    ELSE args

----------------------------------------------------------------------------
(* WdlGenerator.make_command and WdlGenerator.make_task_name *)

\* [f(x) for x in xs if p(x)] with p(x) the class of x.arg
RECURSIVE InputsOf(_, _)
InputsOf(xs, c) ==
    IF xs = <<>> THEN <<>>
    ELSE (IF isinstance(Head(xs).arg, c)
          THEN <<flag_to_command_input(Head(xs))>> ELSE <<>>)
         \o InputsOf(Tail(xs), c)

make_command(cmd, ins) ==
    [cls |-> "Command",
     command |-> Join(<<" ">>, [i \in 1..Len(cmd) |-> WDL_STRIP_sub(<<"_">>, cmd[i])]),
     inputs |-> InputsOf(ins, "Positional"),
     arguments |-> InputsOf(ins, "Flag")]

\* [WDL_STRIP.sub("", token) for token in cmd.command]
strip_tokens(cmd) == [i \in 1..Len(cmd) |-> WDL_STRIP_sub(<<>>, cmd[i])]

make_task_name(cmd) ==
    camelize(Replace(Join(<<"_">>, strip_tokens(cmd)), "-", "_"))

----------------------------------------------------------------------------
(* The specifications: the inputs are drawn, the function is applied. *)

\* A command and the named arguments of make_command.  The command string
\* reads the tokens alone and the placeholders the arguments alone, so the
\* two are drawn one at a time.
InitCommand ==
    /\ done = ""
    /\ \/ command \in Commands /\ inputs = <<>>
       \/ command = <<>> /\ inputs \in SeqsOf(CommandArguments, 1, MaxInputs)
    /\ stripped = None
    /\ task_name = None
    /\ task_command = None
    /\ types = <<>>
    /\ lowered = None
    /\ typ = None
    /\ optional = FALSE
    /\ wdl_type = None
    /\ named_flag = None
    /\ command_input = None

MakeTaskName ==
    /\ done = ""
    /\ stripped' = strip_tokens(command)
    /\ task_name' = make_task_name(command)
    /\ done' = "make_task_name"
    /\ UNCHANGED <<command, inputs, task_command, types, lowered, typ, optional,
                   wdl_type, named_flag, command_input>>

MakeCommand ==
    /\ done = ""
    /\ task_command' = make_command(command, inputs)
    /\ done' = "make_command"
    /\ UNCHANGED <<command, inputs, stripped, task_name, types, lowered, typ,
                   optional, wdl_type, named_flag, command_input>>

NextCommand == MakeTaskName \/ MakeCommand

SpecCommand == InitCommand /\ [][NextCommand]_vars

InitLower ==
    /\ done = ""
    /\ command = <<>>
    /\ inputs = <<>>
    /\ stripped = None
    /\ task_name = None
    /\ task_command = None
    /\ types \in SeqsOf(LowerTypes, 1, MaxTypes)
    /\ lowered = None
    /\ typ = None
    /\ optional = FALSE
    /\ wdl_type = None
    /\ named_flag = None
    /\ command_input = None

LowestCommonType ==
    /\ done = ""
    /\ lowered' = lowest_common_type(types)
    /\ done' = "lowest_common_type"
    /\ UNCHANGED <<command, inputs, stripped, task_name, task_command, types, typ,
                   optional, wdl_type, named_flag, command_input>>

NextLower == LowestCommonType

SpecLower == InitLower /\ [][NextLower]_vars

InitMap ==
    /\ done = ""
    /\ command = <<>>
    /\ inputs = <<>>
    /\ stripped = None
    /\ task_name = None
    /\ task_command = None
    /\ types = <<>>
    /\ lowered = None
    /\ typ \in TypesTo(MaxDepth)
    /\ optional \in BOOLEAN
    /\ wdl_type = None
    /\ named_flag = None
    /\ command_input = None

TypeToWdl ==
    /\ done = ""
    /\ wdl_type' = type_to_wdl(typ, optional)
    /\ done' = "type_to_wdl"
    /\ UNCHANGED <<command, inputs, stripped, task_name, task_command, types,
                   lowered, typ, optional, named_flag, command_input>>

NextMap == TypeToWdl

SpecMap == InitMap /\ [][NextMap]_vars

InitFlag ==
    /\ done = ""
    /\ command = <<>>
    /\ inputs = <<>>
    /\ stripped = None
    /\ task_name = None
    /\ task_command = None
    /\ types = <<>>
    /\ lowered = None
    /\ typ = None
    /\ optional = FALSE
    /\ wdl_type = None
    /\ named_flag \in NamedArguments
    /\ command_input = None

FlagToCommandInput ==
    /\ done = ""
    /\ command_input' = flag_to_command_input(named_flag)
    /\ done' = "flag_to_command_input"
    /\ UNCHANGED <<command, inputs, stripped, task_name, task_command, types,
                   lowered, typ, optional, wdl_type, named_flag>>

NextFlag == FlagToCommandInput

SpecFlag == InitFlag /\ [][NextFlag]_vars

----------------------------------------------------------------------------
(* The claims. *)

\* The distinct classes of a sequence of types, by name.
Tags(ts) == {ts[i].cls : i \in 1..Len(ts)}
ComplexTags == {"CliDir", "CliDict", "CliFile", "CliTuple", "CliList"}

\* C1: every token stripped of the WDL_STRIP matches, as make_task_name
\* strips it, is empty or an identifier [A-Za-z][A-Za-z0-9_]*.
C1_StrippedIsIdentifier ==
    done = "make_task_name" =>
        \A i \in 1..Len(stripped) :
            stripped[i] = <<>> \/ WDL_IDENT(stripped[i])

\* C2: stripping is idempotent: stripping a stripped token again gives the
\* stripped token.
C2_StripIdempotent ==
    done = "make_task_name" =>
        \A i \in 1..Len(stripped) :
            WDL_STRIP_sub(<<>>, stripped[i]) = stripped[i]

\* C3: the command string of make_command is the tokens, each with exactly its
\* illegal characters deleted, joined by spaces; a token that is an identifier
\* is unaltered.
C3_CommandTokensStripped ==
    done = "make_command" =>
        /\ task_command.command = Join(<<" ">>, strip_tokens(command))
        /\ (Len(command) = 1 /\ WDL_IDENT(command[1])
                => task_command.command = command[1])

\* C6: of types with two or more classes, one of them complex,
\* lowest_common_type raises the no-common-type error naming the classes.
C6_NoCommonTypeError ==
    (/\ done = "lowest_common_type"
     /\ Cardinality(Tags(types)) >= 2
     /\ Tags(types) \cap ComplexTags # {})
        => /\ lowered.raised
           /\ lowered.exc.cls = "Exception"
           /\ lowered.exc = [cls |-> "Exception",
                             names |-> {ClassObject(c) : c \in Tags(types)}]

\* The types with two neighbours exchanged, and with one of them repeated.
Swap(ts, i) ==
    [k \in 1..Len(ts) |-> IF k = i THEN ts[i + 1] ELSE IF k = i + 1 THEN ts[i] ELSE ts[k]]
Repeat(ts, i) == Append(ts, ts[i])

\* C7: of types with two or more classes, none of them complex,
\* lowest_common_type returns Float when the classes are Integer and Float
\* and String otherwise, whatever the order and the multiplicity of the types.
C7_ScalarLowering ==
    (/\ done = "lowest_common_type"
     /\ Cardinality(Tags(types)) >= 2
     /\ Tags(types) \cap ComplexTags = {})
        => /\ lowered = (IF Tags(types) = {"CliInteger", "CliFloat"}
                         THEN Return(CliLeaf("CliFloat"))
                         ELSE Return(CliLeaf("CliString")))
           /\ \A i \in 1..(Len(types) - 1) :
                 lowest_common_type(Swap(types, i)) = lowered
           /\ \A i \in 1..Len(types) :
                 lowest_common_type(Repeat(types, i)) = lowered

\* C7, reached: Integer, Float, Integer lowered to Float.
C7_Witness ==
    /\ done = "lowest_common_type"
    /\ types = <<CliLeaf("CliInteger"), CliLeaf("CliFloat"), CliLeaf("CliInteger")>>
    /\ lowered = Return(CliLeaf("CliFloat"))

\* Whether the expressions nested in a target type expression are all
\* non-optional: the element of an array, and the elements within it.
RECURSIVE NestedNonOptional(_)
NestedNonOptional(w) ==
    w.type.cls = "ArrayType" =>
        /\ w.type.subtype.optional = FALSE
        /\ NestedNonOptional(w.type.subtype)

\* C4, as claimed: the optionality bit of the outermost expression equals the
\* optional flag, for primitives, List and Tuple alike, and every nested
\* expression is non-optional.
C4_OuterOptionalIsFlag ==
    (done = "type_to_wdl" /\ ~wdl_type.raised) =>
        /\ wdl_type.value.optional = optional
        /\ NestedNonOptional(wdl_type.value)

\* C4, amended: the optionality bit of the outermost expression equals the
\* optional flag for every type but List and Tuple; for List and Tuple the bit
\* of the array expression is never set and the array requires multiple values
\* exactly when the flag is false; every nested expression is non-optional.
C4_OptionalOfPrimitiveAndArray ==
    (done = "type_to_wdl" /\ ~wdl_type.raised) =>
        /\ IF typ.cls \in {"CliList", "CliTuple"}
           THEN /\ wdl_type.value.type.cls = "ArrayType"
                /\ wdl_type.value.optional = FALSE
                /\ wdl_type.value.type.requires_multiple = ~optional
           ELSE /\ wdl_type.value.type.cls = "PrimitiveType"
                /\ wdl_type.value.optional = optional
        /\ NestedNonOptional(wdl_type.value)

\* C4, reached: List(List(Integer)) with optional=true is an array of arrays
\* of Int whose expressions are all non-optional.
C4_Witness ==
    /\ done = "type_to_wdl"
    /\ typ = CliList(CliList(CliLeaf("CliInteger")))
    /\ optional = TRUE
    /\ wdl_type = Return(WdlType(ArrayType(
                      WdlType(ArrayType(WdlType(PrimitiveType("Int"), FALSE), TRUE),
                              FALSE),
                      FALSE), FALSE))

\* The target primitive of a class without parameters.
PrimitiveOf(c) ==
    CASE c = "CliString" -> "String"
      [] c = "CliFloat" -> "Float"
      [] c = "CliBoolean" -> "Boolean"
      [] c = "CliInteger" -> "Int"
      [] c = "CliFile" -> "File"
      [] c = "CliDir" -> "Directory"
      [] OTHER -> "String"

\* C5: a Tuple that is not homogenous and whose values are all of one class T
\* maps to an array whose element is the target mapping of T: an array for
\* List and Tuple, the primitive of T otherwise.
C5_SameClassTupleElement ==
    (/\ done = "type_to_wdl"
     /\ typ.cls = "CliTuple"
     /\ ~typ.homogenous
     /\ Cardinality(Tags(typ.values)) = 1)
        => /\ ~wdl_type.raised
           /\ wdl_type.value.type.cls = "ArrayType"
           /\ LET T == CHOOSE c \in Tags(typ.values) : TRUE
                  elem == wdl_type.value.type.subtype
              IN IF T \in {"CliList", "CliTuple"}
                 THEN elem.type.cls = "ArrayType"
                 ELSE elem.type = PrimitiveType(PrimitiveOf(T))

\* Whether the values of a Tuple have no lowest common type: two classes or
\* more, one of them complex.
NoCommonType(vs) ==
    Cardinality(Tags(vs)) >= 2 /\ Tags(vs) \cap ComplexTags # {}

\* Whether the descent of type_to_wdl, through the value of a List and the
\* first value of a homogenous Tuple, ends at a Tuple that is not homogenous
\* and whose values have no lowest common type.
RECURSIVE ReachesNoCommonType(_)
ReachesNoCommonType(t) ==
    IF t.cls = "CliList" THEN ReachesNoCommonType(t.value)
    ELSE IF t.cls = "CliTuple"
         THEN IF t.homogenous THEN ReachesNoCommonType(t.values[1])
              ELSE NoCommonType(t.values)
    ELSE FALSE

\* C9, as claimed: type_to_wdl never fails, and a class with no mapping gives
\* the string type.
C9_NeverFails ==
    done = "type_to_wdl" =>
        /\ ~wdl_type.raised
        /\ typ.cls = "CliDict" => wdl_type = Return(WdlPrimitive("String", optional))

\* C9, amended: type_to_wdl fails exactly when its descent through the value
\* of a List and the first value of a homogenous Tuple ends at a Tuple that is
\* not homogenous and whose values have two classes or more, one of them
\* complex; otherwise it returns a target type expression, and a class with no
\* mapping gives the string type.
C9_FailsOnlyWithoutCommonType ==
    done = "type_to_wdl" =>
        /\ wdl_type.raised <=> ReachesNoCommonType(typ)
        /\ ~wdl_type.raised => wdl_type.value.cls = "WdlType"
        /\ typ.cls = "CliDict" => wdl_type = Return(WdlPrimitive("String", optional))

\* C9, reached: type_to_wdl has failed on a List of a Tuple of a String and a
\* File.
C9_Witness ==
    /\ done = "type_to_wdl"
    /\ typ = CliList(CliTuple(<<CliLeaf("CliString"), CliLeaf("CliFile")>>))
    /\ wdl_type.raised

\* C8: the placeholder of a Positional records the position of the argument
\* and is marked not optional, whatever the optional flag of the argument.
C8_PositionalPlaceholder ==
    (done = "flag_to_command_input" /\ named_flag.arg.cls = "Positional") =>
        /\ "position" \in DOMAIN command_input
        /\ command_input.position = named_flag.arg.position
        /\ "optional" \in DOMAIN command_input
        /\ command_input.optional = FALSE

\* C10: the placeholder of a Flag carries the chosen name and the optional
\* value of the flag; a flag that takes no value has its longest synonym as
\* the "true" token, the empty string as the "false" token and no prefix; a
\* flag that takes a value has its longest synonym as prefix and no "true" or
\* "false" token.
C10_FlagPlaceholder ==
    (done = "flag_to_command_input" /\ named_flag.arg.cls = "Flag") =>
        /\ command_input.name = named_flag.name
        /\ command_input.optional = named_flag.arg.optional
        /\ IF named_flag.arg.args.cls = "EmptyFlagArg"
           THEN /\ DOMAIN command_input = {"name", "optional", "true", "false"}
                /\ command_input.true = longest_synonym(named_flag.arg)
                /\ command_input.false = <<>>
           ELSE /\ DOMAIN command_input = {"name", "optional", "prefix"}
                /\ command_input.prefix = longest_synonym(named_flag.arg)

\* C10, reached: the switch -o/--output has --output as its "true" token.
C10_Witness ==
    /\ done = "flag_to_command_input"
    /\ named_flag.arg = Flag(<<Str_o, Str_output>>, "EmptyFlagArg", TRUE)
    /\ command_input.true = Str_output
    /\ command_input.false = <<>>
    /\ command_input.optional = TRUE

====
